---- MODULE Spec2Model ----
(***************************************************************************)
(* Focus-duration tracking engine of wayland-appusage (daemon/src/app.rs). *)
(*                                                                         *)
(* The program state is the registry `toplevels` (handle -> ToplevelInfo)  *)
(* and the rows of the app_usage table `db`.  Every Dispatch handler is    *)
(* one action.  Time is counted in ticks of 1/TicksPerMs millisecond; the  *)
(* monotonic clock (Instant::now) reads `now`, the wall clock              *)
(* (SystemTime::now) reads `now + UnixOffset + skew`; one handler runs at  *)
(* one reading of the clocks.                                              *)
(*                                                                         *)
(* `main` is the position of the daemon's main function and the globals it *)
(* has bound; `answer` is what the viewer's last query returned; `twin` is  *)
(* the copy of the engine that daemon/src/main.rs keeps, fed the same       *)
(* events.                                                                  *)
(*                                                                         *)
(* The remaining variables are history variables: they record what the     *)
(* handlers did and never influence them.                                  *)
(***************************************************************************)
EXTENDS Integers, Sequences, FiniteSets, TLC

VARIABLES
    now,         \* reading of the monotonic clock, in ticks
    skew,        \* ticks the wall clock has been stepped forward since start
    toplevels,   \* AppState.toplevels : handle -> ToplevelInfo
    db,          \* rows of table app_usage, in insertion order
    warned,      \* number of "db insert failed" warnings the last event logged
    main,        \* the daemon process: where main() is, the globals bound so
                 \*   far (AppState.toplevel_manager, idle_notifier, seats) and
                 \*   the error its last step logged
    answer,      \* the viewer: Option, the last query of tui-app/src/db.rs
                 \*   and what it returned
    owner,       \* history: owner[i] is the handle whose session db[i] records
    idle,        \* history: the most recent idle event was Idled
    resumedIn,   \* history, for Watched: Option, clock reading of the most
                 \*   recent Resumed, when Watched was activated at that event
                 \*   and has stayed activated since
    runStart,    \* history, for Watched: Option, clock reading of the first
                 \*   snapshot of its current run of activated snapshots
    sawIdle,     \* history, for Watched: its open session spans idle time
    unrecorded,  \* history, for Watched: ticks spent activated and not idle
                 \*   minus ticks of its sessions ended so far
    repeated,    \* history, for Watched: the last event was a State event whose
                 \*   activated bit equals the bit stored before it
    opened,      \* history, for Watched: Option, the clock reading at which its
                 \*   most recent session was opened and the app_id it held then
    idledRun,    \* history: how many of the most recent events were Idled
                 \*   (0, 1, or 2 for two and more)
    twin         \* the engine of daemon/src/main.rs fed the same events: its
                 \*   AppState.toplevels and the rows of its table

hist == <<runStart, sawIdle, unrecorded, repeated, opened, idledRun, twin, answer>>
vars == <<now, skew, toplevels, db, warned, main, answer, owner, idle, resumedIn,
          runStart, sawIdle, unrecorded, repeated, opened, idledRun, twin>>

----------------------------------------------------------------------------
(* Bounds of the model *)

MaxTime == 3        \* the clock stops advancing at MaxTime ticks
MaxRows == 2        \* an event that could store a row beyond MaxRows is not delivered
TicksPerMs == 2     \* clock resolution: ticks per millisecond
UnixOffset == 1     \* wall clock minus monotonic clock at start, in ticks
MaxSkew == 1        \* the wall clock is stepped forward by at most MaxSkew ticks
MaxSeats == 1       \* the compositor advertises at most MaxSeats seats
MaxStored == 2      \* the viewer opens a table of at most MaxStored rows
MaxStamp == 2       \* start_time and duration of a stored row are at most MaxStamp ms

Handles == {"h1", "h2"}
Watched == "h1"
AppIds == {"a"}
(* the app names in the table the viewer opens *)
StoredApps == {"a", "b"}

(* zwlr_foreign_toplevel_handle_v1::State, by wire value *)
Maximized == 0
Minimized == 1
Activated == 2
Fullscreen == 3
StateValues == {Maximized, Minimized, Activated, Fullscreen}
(* the `state` arrays a State event carries, as sequences of wire values *)
StateArrays == {<< >>, <<Activated>>, <<Maximized, Activated>>}
(* the same, and an array with a value that is no State *)
WireArrays == StateArrays \cup {<<Activated, 9>>}

----------------------------------------------------------------------------
(* Option<T>: None is the empty sequence, Some(x) the one-element sequence *)

None == << >>
Some(x) == << x >>
IsSome(o) == Len(o) = 1
Unwrap(o) == o[1]

(* ToplevelInfo::default() *)
DefaultInfo == [app_id |-> None, focused_since |-> None, state |-> None]

(* app_state.toplevels.entry(proxy.clone()).or_default() *)
Entry(h) == IF h \in DOMAIN toplevels THEN toplevels[h] ELSE DefaultInfo

(* the map after `*item = v` on the entry of h *)
Put(h, v) == [k \in (DOMAIN toplevels) \cup {h} |-> IF k = h THEN v ELSE toplevels[k]]

RemoveIfInactive(h) ==
    IF IsSome(Entry(h).focused_since) THEN toplevels
    ELSE [k \in (DOMAIN toplevels) \ {h} |-> toplevels[k]]

(* app_state.toplevels.remove(&proxy) *)
Remove(h) == [k \in (DOMAIN toplevels) \ {h} |-> toplevels[k]]

(* Vec::contains *)
Contains(vec, x) == \E i \in DOMAIN vec : vec[i] = x

(* state.as_ref().is_some_and(|s| s.contains(&State::Activated)) *)
IsActivated(item) == IsSome(item.state) /\ Contains(Unwrap(item.state), Activated)

(* Duration::as_millis / duration_since(UNIX_EPOCH).as_millis: truncation *)
AsMillis(t) == t \div TicksPerMs

InstantNow == now
SystemTimeNow == now + UnixOffset + skew

(* insert_usage: the row handed to INSERT INTO app_usage *)
InsertUsage(app_name, end_time, duration) ==
    LET start_time == end_time - duration
    IN  [app_name |-> app_name,
         start_time |-> AsMillis(start_time),
         end_time |-> AsMillis(end_time),
         duration |-> AsMillis(duration)]

EmittedUnattributed(item, focused_since) ==
    Some(InsertUsage(IF IsSome(item.app_id) THEN Unwrap(item.app_id) ELSE "",
                     SystemTimeNow, InstantNow - focused_since))

(* The `if let Some(ref app_id) = item.app_id { insert_usage(..) }` block run  *)
(* for a session opened at focused_since: the row emitted, if any.             *)
Emitted(item, focused_since) ==
    IF IsSome(item.app_id)
    THEN Some(InsertUsage(Unwrap(item.app_id), SystemTimeNow, InstantNow - focused_since))
    ELSE None

WrittenOverLast(rows, emitted, ok) ==
    IF IsSome(emitted) /\ ok
    THEN (IF rows = << >> THEN << >> ELSE SubSeq(rows, 1, Len(rows) - 1))
            \o <<Unwrap(emitted)>>
    ELSE rows

(* db after conn.execute(INSERT ..) for the emitted row, if any: the row is *)
(* stored unless the write fails                                            *)
Written(rows, emitted, ok) ==
    IF IsSome(emitted) /\ ok THEN Append(rows, Unwrap(emitted)) ELSE rows

(* `if let Err(e) = insert_usage(..) { warn!("db insert failed: {e}") }` *)
Warned(emitted, ok) == IF IsSome(emitted) /\ ~ok THEN 1 ELSE 0

(* owner after the same conn.execute *)
Owned(owners, h, emitted, ok) ==
    IF IsSome(emitted) /\ ok THEN Append(owners, h) ELSE owners

(* main() inside `loop { queue.blocking_dispatch(&mut state) }`, both      *)
(* capabilities bound and one seat                                          *)
Dispatching ==
    [pc |-> "dispatch", toplevel_manager |-> TRUE, idle_notifier |-> TRUE,
     seats |-> 1, error |-> ""]

(* main() at its first statement: nothing bound yet *)
Starting ==
    [pc |-> "connect", toplevel_manager |-> FALSE, idle_notifier |-> FALSE,
     seats |-> 0, error |-> ""]

----------------------------------------------------------------------------
(* AppState::new() has run and main() is in its dispatch loop *)
Init ==
    /\ now = 0
    /\ skew = 0
    /\ toplevels = << >>
    /\ db = << >>
    /\ warned = 0
    /\ main = Dispatching
    /\ answer = None
    /\ owner = << >>
    /\ idle = FALSE
    /\ resumedIn = None
    /\ runStart = None
    /\ sawIdle = FALSE
    /\ unrecorded = 0
    /\ repeated = FALSE
    /\ opened = None
    /\ idledRun = 0
    /\ twin = [toplevels |-> << >>, db |-> << >>]

(* the daemon process is started *)
InitMain ==
    /\ now = 0
    /\ skew = 0
    /\ toplevels = << >>
    /\ db = << >>
    /\ warned = 0
    /\ main = Starting
    /\ answer = None
    /\ owner = << >>
    /\ idle = FALSE
    /\ resumedIn = None
    /\ runStart = None
    /\ sawIdle = FALSE
    /\ unrecorded = 0
    /\ repeated = FALSE
    /\ opened = None
    /\ idledRun = 0
    /\ twin = [toplevels |-> << >>, db |-> << >>]

engine == <<now, skew, toplevels, db, warned, owner, idle>>

(* main: wayland_client::Connection::connect_to_env(), then the event queue *)
(* and display.get_registry()                                               *)
Connect ==
    /\ main.pc = "connect"
    /\ \E ok \in BOOLEAN :
          main' = IF ok THEN [main EXCEPT !.pc = "new"]
                  ELSE [main EXCEPT !.pc = "returned", !.error = "connect"]
    /\ UNCHANGED engine

(* main: AppState::new() *)
NewAppState ==
    /\ main.pc = "new"
    /\ \E ok \in BOOLEAN :
          main' = IF ok THEN [main EXCEPT !.pc = "roundtrip"]
                  ELSE [main EXCEPT !.pc = "returned", !.error = "appstate"]
    /\ UNCHANGED engine

Interfaces ==
    {"ext_idle_notifier_v1", "wl_seat", "zwlr_foreign_toplevel_manager_v1", "wl_output"}

(* Dispatch<WlRegistry>: wl_registry::Event::Global { interface, .. } *)
Global(interface) ==
    /\ main.pc \in {"roundtrip", "dispatch"}
    /\ interface = "wl_seat" => main.seats < MaxSeats
    /\ main' = IF interface = "ext_idle_notifier_v1"
                  THEN [main EXCEPT !.idle_notifier = TRUE]
               ELSE IF interface = "wl_seat"
                  THEN [main EXCEPT !.seats = @ + 1]
               ELSE IF interface = "zwlr_foreign_toplevel_manager_v1"
                  THEN [main EXCEPT !.toplevel_manager = TRUE]
               ELSE main
    /\ UNCHANGED engine

(* main: queue.roundtrip(&mut state) returns; an error is logged and main   *)
(* goes on                                                                  *)
RoundtripReturns ==
    /\ main.pc = "roundtrip"
    /\ \E ok \in BOOLEAN :
          main' = IF ok THEN [main EXCEPT !.pc = "check"]
                  ELSE [main EXCEPT !.pc = "check", !.error = "roundtrip"]
    /\ UNCHANGED engine

CheckManagerOnly ==
    /\ main.pc = "check"
    /\ main' = IF ~main.toplevel_manager
                  THEN [main EXCEPT !.pc = "returned", !.error = "toplevel manager"]
               ELSE [main EXCEPT !.pc = "dispatch"]
    /\ UNCHANGED engine

(* main: the two capability checks; get_idle_notification(.., &state.seats[0], ..) *)
(* panics when no seat was bound                                                  *)
CheckCapabilities ==
    /\ main.pc = "check"
    /\ main' = IF ~main.toplevel_manager
                  THEN [main EXCEPT !.pc = "returned", !.error = "toplevel manager"]
               ELSE IF main.idle_notifier
                  THEN (IF main.seats = 0
                        THEN [main EXCEPT !.pc = "panicked"]
                        ELSE [main EXCEPT !.pc = "dispatch"])
               ELSE [main EXCEPT !.pc = "returned", !.error = "idle notifier"]
    /\ UNCHANGED engine

(* main: queue.blocking_dispatch(&mut state) returns Err: logged, the loop  *)
(* goes on                                                                  *)
DispatchFails ==
    /\ main.pc = "dispatch"
    /\ main' = [main EXCEPT !.error = "dispatch"]
    /\ UNCHANGED engine

(* time passes between two events *)
Tick ==
    /\ now < MaxTime
    /\ now' = now + 1
    /\ warned' = 0
    /\ UNCHANGED <<skew, toplevels, db, main, owner, idle>>

(* the wall clock is stepped forward (settimeofday, NTP step) *)
WallStep ==
    /\ skew < MaxSkew
    /\ skew' = skew + 1
    /\ warned' = 0
    /\ UNCHANGED <<now, toplevels, db, main, owner, idle>>

AppIdRestarts(h, app_id) ==
    /\ toplevels' = Put(h, [Entry(h) EXCEPT
            !.app_id = Some(app_id),
            !.focused_since = IF IsSome(Entry(h).focused_since)
                              THEN Some(InstantNow) ELSE None])
    /\ warned' = 0
    /\ UNCHANGED <<now, skew, db, main, owner, idle>>

AppIdSplits(h, app_id) ==
    LET item == Entry(h)
        emitted == IF IsSome(item.focused_since)
                   THEN Emitted(item, Unwrap(item.focused_since)) ELSE None
    IN  /\ IsSome(emitted) => Len(db) < MaxRows
        /\ db' = Written(db, emitted, TRUE)
        /\ owner' = Owned(owner, h, emitted, TRUE)
        /\ toplevels' = Put(h, [item EXCEPT
                !.app_id = Some(app_id),
                !.focused_since = IF IsSome(item.focused_since)
                                  THEN Some(InstantNow) ELSE None])
        /\ warned' = 0
        /\ UNCHANGED <<now, skew, main, idle>>

(* Event::AppId { app_id } => item.app_id = Some(app_id) *)
AppId(h, app_id) ==
    /\ toplevels' = Put(h, [Entry(h) EXCEPT !.app_id = Some(app_id)])
    /\ warned' = 0
    /\ UNCHANGED <<now, skew, db, main, owner, idle>>

(* any other toplevel-handle event (Title, Done, ...): `_ => ()` after or_default *)
OtherEvent(h) ==
    /\ toplevels' = Put(h, Entry(h))
    /\ warned' = 0
    /\ UNCHANGED <<now, skew, db, main, owner, idle>>

StateFocusDrops(item, was_active, is_active) ==
    IF is_active /\ ~was_active THEN Some(InstantNow) ELSE None

StateFocusKeeps(item, was_active, is_active) ==
    IF is_active /\ ~was_active THEN Some(InstantNow) ELSE item.focused_since

StateFocusAfterFirst(item, was_active, is_active) ==
    IF was_active /\ ~is_active THEN None
    ELSE IF is_active /\ ~was_active /\ IsSome(item.state) THEN Some(InstantNow)
    ELSE item.focused_since

StateFocusRestarts(item, was_active, is_active) ==
    IF was_active /\ ~is_active THEN None
    ELSE IF is_active THEN Some(InstantNow)
    ELSE item.focused_since

(* focused_since after the `became inactive` and `became active` blocks *)
StateFocus(item, was_active, is_active) ==
    IF was_active /\ ~is_active THEN None
    ELSE IF is_active /\ ~was_active THEN Some(InstantNow)
    ELSE item.focused_since

(* whether every value of the wire array is a State:                        *)
(* State::try_from(raw_value) is Ok for each chunk                          *)
Decodes(state) == \A i \in DOMAIN state : state[i] \in StateValues

(* Event::State { state }: the entry is created, then the array is decoded; *)
(* try_from(raw_value).unwrap() panics on a value that is no State, before  *)
(* anything else is changed                                                 *)
State(h, state) ==
    LET item == Entry(h)
        new_state == state
        was_active == IsActivated(item)
        is_active == Contains(new_state, Activated)
        closes == was_active /\ ~is_active /\ IsSome(item.focused_since)
        emitted == IF closes THEN Emitted(item, Unwrap(item.focused_since)) ELSE None
    IN  \/ /\ ~Decodes(state)
           /\ toplevels' = Put(h, item)
           /\ main' = [main EXCEPT !.pc = "panicked", !.error = ""]
           /\ warned' = 0
           /\ UNCHANGED <<now, skew, db, owner, idle>>
        \/ /\ Decodes(state)
           /\ IsSome(emitted) => Len(db) < MaxRows
           /\ \E ok \in BOOLEAN :
                 /\ db' = Written(db, emitted, ok)
                 /\ warned' = Warned(emitted, ok)
                 /\ owner' = Owned(owner, h, emitted, ok)
           /\ toplevels' = Put(h, [item EXCEPT
                   !.focused_since = StateFocus(item, was_active, is_active),
                   !.state = Some(new_state)])
           /\ UNCHANGED <<now, skew, main, idle>>

ClosedNeverFlushes(item) == FALSE

(* Event::Closed: whether the handler reaches the insert block *)
ClosedFlushes(item) == IsActivated(item) /\ IsSome(item.focused_since)

(* Event::Closed *)
Closed(h) ==
    LET item == Entry(h)
        emitted == IF ClosedFlushes(item)
                   THEN Emitted(item, Unwrap(item.focused_since)) ELSE None
    IN  /\ IsSome(emitted) => Len(db) < MaxRows
        /\ \E ok \in BOOLEAN :
              /\ db' = Written(db, emitted, ok)
              /\ warned' = Warned(emitted, ok)
              /\ owner' = Owned(owner, h, emitted, ok)
        /\ toplevels' = Remove(h)
        /\ UNCHANGED <<now, skew, main, idle>>

(* the orders in which values_mut() may visit the handles of S *)
Orders(S) == {s \in [1..Cardinality(S) -> S] : \A x \in S : \E i \in DOMAIN s : s[i] = x}

IdledFilterAttributed(item) == IsSome(item.focused_since) /\ IsSome(item.app_id)

(* .filter(|toplevel| toplevel.focused_since.is_some()) *)
IdledFilter(item) == IsSome(item.focused_since)

IdledEmitsNothing(item) == None

(* the row the body of the Idled loop emits for one toplevel *)
IdledEmitted(item) == Emitted(item, Unwrap(item.focused_since))

IdledKeepsFocus(item) == item.focused_since

IdledRestartsFocus(item) == Some(InstantNow)

(* focused_since of a toplevel after the body of the Idled loop *)
IdledFocus(item) == None

(* the rows stored by the Idled loop visiting `order`, after `rows` *)
RECURSIVE IdledDb(_, _, _)
IdledDb(order, oks, rows) ==
    IF order = << >> THEN rows
    ELSE IdledDb(Tail(order), oks,
                 Written(rows, IdledEmitted(toplevels[Head(order)]), oks[Head(order)]))

RECURSIVE IdledWarned(_, _)
IdledWarned(order, oks) ==
    IF order = << >> THEN 0
    ELSE Warned(IdledEmitted(toplevels[Head(order)]), oks[Head(order)])
           + IdledWarned(Tail(order), oks)

RECURSIVE IdledOwner(_, _, _)
IdledOwner(order, oks, owners) ==
    IF order = << >> THEN owners
    ELSE IdledOwner(Tail(order), oks,
                    Owned(owners, Head(order), IdledEmitted(toplevels[Head(order)]),
                          oks[Head(order)]))

(* Event::Idled *)
Idled ==
    LET open == {h \in DOMAIN toplevels : IdledFilter(toplevels[h])}
    IN  /\ Len(db) + Cardinality({h \in open : IsSome(IdledEmitted(toplevels[h]))})
              <= MaxRows
        /\ \E order \in Orders(open) : \E oks \in [open -> BOOLEAN] :
              /\ db' = IdledDb(order, oks, db)
              /\ warned' = IdledWarned(order, oks)
              /\ owner' = IdledOwner(order, oks, owner)
        /\ toplevels' = [h \in DOMAIN toplevels |->
                IF h \in open
                THEN [toplevels[h] EXCEPT !.focused_since = IdledFocus(toplevels[h])]
                ELSE toplevels[h]]
        /\ idle' = TRUE
        /\ UNCHANGED <<now, skew, main>>

ResumedFilterSeen(item) == IsSome(item.state)

ResumedFilterNoSession(item) == IsActivated(item) /\ ~IsSome(item.focused_since)

(* .filter(|toplevel| toplevel.state...contains(&State::Activated)) *)
ResumedFilter(item) == IsActivated(item)

(* Event::Resumed *)
Resumed ==
    /\ toplevels' = [h \in DOMAIN toplevels |->
            IF ResumedFilter(toplevels[h])
            THEN [toplevels[h] EXCEPT !.focused_since = Some(InstantNow)]
            ELSE toplevels[h]]
    /\ idle' = FALSE
    /\ warned' = 0
    /\ UNCHANGED <<now, skew, db, main, owner>>

----------------------------------------------------------------------------
(* History of the toplevel Watched, read off a step of the engine *)

Before == Entry(Watched)
After == IF Watched \in DOMAIN toplevels' THEN toplevels'[Watched] ELSE DefaultInfo

(* the step ends the open session of Watched *)
SessionEnds == IsSome(Before.focused_since) /\ ~IsSome(After.focused_since)

(* the rows of h among `rows`, owned as `owners` says *)
RECURSIVE RowsOf(_, _, _)
RowsOf(h, rows, owners) ==
    IF rows = << >> THEN << >>
    ELSE (IF Head(owners) = h THEN <<Head(rows)>> ELSE << >>)
            \o RowsOf(h, Tail(rows), Tail(owners))

(* every session of Watched that ends is recorded: it has an app_id and the *)
(* write succeeds                                                           *)
Recorded ==
    SessionEnds => Len(RowsOf(Watched, db', owner')) = Len(RowsOf(Watched, db, owner)) + 1

(* a step that is not the Resumed event *)
HistStays ==
    resumedIn' = IF IsActivated(After) THEN resumedIn ELSE None

(* a step that is the Resumed event *)
HistResumed ==
    resumedIn' = IF IsActivated(Before) THEN Some(now) ELSE None

HistRun ==
    runStart' = IF ~IsActivated(After) THEN None
                ELSE IF IsActivated(Before) THEN runStart ELSE Some(now)

HistIdleSpan ==
    sawIdle' = IF IsSome(After.focused_since) /\ After.focused_since = Before.focused_since
               THEN sawIdle \/ (now' > now /\ idle)
               ELSE FALSE

HistAccount ==
    unrecorded' = unrecorded
            + (IF now' > now /\ IsActivated(Before) /\ ~idle THEN 1 ELSE 0)
            - (IF SessionEnds THEN now - Unwrap(Before.focused_since) ELSE 0)

----------------------------------------------------------------------------
(* The engine under any order of events, the wall clock never adjusted *)

Next ==
    \/ Tick /\ HistStays /\ UNCHANGED hist
    \/ \E h \in Handles : \E app_id \in AppIds :
          AppId(h, app_id) /\ HistStays /\ UNCHANGED hist
    \/ \E h \in Handles : \E state \in StateArrays :
          State(h, state) /\ HistStays /\ UNCHANGED hist
    \/ \E h \in Handles : Closed(h) /\ HistStays /\ UNCHANGED hist
    \/ \E h \in Handles : OtherEvent(h) /\ HistStays /\ UNCHANGED hist
    \/ Idled /\ HistStays /\ UNCHANGED hist
    \/ Resumed /\ HistResumed /\ UNCHANGED hist

Spec == Init /\ [][Next]_vars

----------------------------------------------------------------------------
(* The engine under any order of events, the wall clock stepped forward at *)
(* any time: both clocks are non-decreasing.                               *)

NextSkew ==
    \/ Tick /\ HistStays /\ UNCHANGED hist
    \/ WallStep /\ HistStays /\ UNCHANGED hist
    \/ \E h \in Handles : \E app_id \in AppIds :
          AppId(h, app_id) /\ HistStays /\ UNCHANGED hist
    \/ \E h \in Handles : \E state \in StateArrays :
          State(h, state) /\ HistStays /\ UNCHANGED hist
    \/ \E h \in Handles : Closed(h) /\ HistStays /\ UNCHANGED hist
    \/ \E h \in Handles : OtherEvent(h) /\ HistStays /\ UNCHANGED hist
    \/ Idled /\ HistStays /\ UNCHANGED hist
    \/ Resumed /\ HistResumed /\ UNCHANGED hist

SpecSkew == Init /\ [][NextSkew]_vars

----------------------------------------------------------------------------
(* The engine fed by a compositor that follows ext-idle-notify: Idled and   *)
(* Resumed alternate, Idled first.  Every session of Watched is recorded,   *)
(* and the time Watched spends focused is accounted for.                    *)

ObserveAlt ==
    Recorded /\ HistIdleSpan /\ HistAccount /\ UNCHANGED <<runStart, repeated, opened, idledRun, twin, answer>>

NextAlt ==
    \/ Tick /\ HistStays /\ ObserveAlt
    \/ \E h \in Handles : \E app_id \in AppIds :
          AppId(h, app_id) /\ HistStays /\ ObserveAlt
    \/ \E h \in Handles : \E state \in StateArrays :
          State(h, state) /\ HistStays /\ ObserveAlt
    \/ \E h \in Handles : Closed(h) /\ HistStays /\ ObserveAlt
    \/ \E h \in Handles : OtherEvent(h) /\ HistStays /\ ObserveAlt
    \/ ~idle /\ Idled /\ HistStays /\ ObserveAlt
    \/ idle /\ Resumed /\ HistResumed /\ ObserveAlt

SpecAlt == Init /\ [][NextAlt]_vars

----------------------------------------------------------------------------
(* The engine under any order of events; it is kept whether the last event  *)
(* was a snapshot for Watched that carries the activated bit it had stored. *)

(* the step is State(h, state) *)
HistRepeat(h, state) ==
    repeated' = (h = Watched /\ (Contains(state, Activated) <=> IsActivated(Before)))

ObserveRep ==
    UNCHANGED <<runStart, sawIdle, unrecorded, opened, idledRun, twin, answer>>

NextRep ==
    \/ Tick /\ HistStays /\ repeated' = FALSE /\ ObserveRep
    \/ \E h \in Handles : \E app_id \in AppIds :
          AppId(h, app_id) /\ HistStays /\ repeated' = FALSE /\ ObserveRep
    \/ \E h \in Handles : \E state \in StateArrays :
          State(h, state) /\ HistStays /\ HistRepeat(h, state) /\ ObserveRep
    \/ \E h \in Handles : Closed(h) /\ HistStays /\ repeated' = FALSE /\ ObserveRep
    \/ \E h \in Handles : OtherEvent(h) /\ HistStays /\ repeated' = FALSE /\ ObserveRep
    \/ Idled /\ HistStays /\ repeated' = FALSE /\ ObserveRep
    \/ Resumed /\ HistResumed /\ repeated' = FALSE /\ ObserveRep

SpecRep == Init /\ [][NextRep]_vars

----------------------------------------------------------------------------
(* The engine under any order of events; it is kept how many Idled events   *)
(* have been delivered in a row.  Time may pass between two events.         *)

HistIdled == idledRun' = IF idledRun = 0 THEN 1 ELSE 2

ObserveIdled ==
    UNCHANGED <<runStart, sawIdle, unrecorded, repeated, opened, twin, answer>>

NextIdled ==
    \/ Tick /\ HistStays /\ UNCHANGED idledRun /\ ObserveIdled
    \/ \E h \in Handles : \E app_id \in AppIds :
          AppId(h, app_id) /\ HistStays /\ idledRun' = 0 /\ ObserveIdled
    \/ \E h \in Handles : \E state \in StateArrays :
          State(h, state) /\ HistStays /\ idledRun' = 0 /\ ObserveIdled
    \/ \E h \in Handles : Closed(h) /\ HistStays /\ idledRun' = 0 /\ ObserveIdled
    \/ \E h \in Handles : OtherEvent(h) /\ HistStays /\ idledRun' = 0 /\ ObserveIdled
    \/ Idled /\ HistStays /\ HistIdled /\ ObserveIdled
    \/ Resumed /\ HistResumed /\ idledRun' = 0 /\ ObserveIdled

SpecIdled == Init /\ [][NextIdled]_vars

----------------------------------------------------------------------------
(* The events of one toplevel in any order, its app id set to either of two *)
(* names at any time; it is kept when its session was opened, by a snapshot *)
(* that makes it activated or by Resumed, and the app id it held then.      *)

(* a step that is not the Resumed event *)
HistBecameActive ==
    opened' = IF ~IsActivated(Before) /\ IsActivated(After)
              THEN Some([at |-> now, app_id |-> After.app_id])
              ELSE opened

(* a step that is the Resumed event *)
HistReopened ==
    opened' = IF IsActivated(Before)
              THEN Some([at |-> now, app_id |-> Before.app_id])
              ELSE opened

ObserveAttr ==
    UNCHANGED <<runStart, sawIdle, unrecorded, repeated, idledRun, twin, answer>>

NextAttr ==
    \/ Tick /\ HistStays /\ HistBecameActive /\ ObserveAttr
    \/ \E app_id \in StoredApps :
          AppId(Watched, app_id) /\ HistStays /\ HistBecameActive /\ ObserveAttr
    \/ \E state \in StateArrays :
          State(Watched, state) /\ HistStays /\ HistBecameActive /\ ObserveAttr
    \/ Closed(Watched) /\ HistStays /\ HistBecameActive /\ ObserveAttr
    \/ Idled /\ HistStays /\ HistBecameActive /\ ObserveAttr
    \/ Resumed /\ HistResumed /\ HistReopened /\ ObserveAttr

SpecAttr == Init /\ [][NextAttr]_vars

----------------------------------------------------------------------------
(* The handlers of daemon/src/main.rs, which keeps its own copy of the      *)
(* engine: they work on `twin`.  Its ToplevelInfo has three more fields     *)
(* (title, parent, done) that none of these handlers reads.                 *)

(* app_state.toplevels.entry(proxy.clone()).or_default() *)
TwinEntry(h) == IF h \in DOMAIN twin.toplevels THEN twin.toplevels[h] ELSE DefaultInfo

TwinPut(h, v) ==
    [k \in (DOMAIN twin.toplevels) \cup {h} |-> IF k = h THEN v ELSE twin.toplevels[k]]

(* the params![..] of the INSERT that main.rs writes out in each handler *)
MainInsert(app_id, duration) ==
    LET start_time == SystemTimeNow - duration
    IN  [app_name |-> app_id,
         start_time |-> AsMillis(start_time),
         end_time |-> AsMillis(SystemTimeNow),
         duration |-> AsMillis(duration)]

(* if let Some(focused_since) .. { if let Some(ref app_id) .. { execute } } *)
MainEmitted(item) ==
    IF IsSome(item.focused_since) /\ IsSome(item.app_id)
    THEN Some(MainInsert(Unwrap(item.app_id), InstantNow - Unwrap(item.focused_since)))
    ELSE None

(* db_connection.execute(..): the row is stored unless the write fails,     *)
(* which is logged                                                          *)
MainWritten(rows, emitted, ok) ==
    IF IsSome(emitted) /\ ok THEN Append(rows, Unwrap(emitted)) ELSE rows

(* Event::AppId *)
MainAppId(h, app_id) ==
    twin' = [twin EXCEPT
               !.toplevels = TwinPut(h, [TwinEntry(h) EXCEPT !.app_id = Some(app_id)])]

(* Event::State, for an array whose values are all States: transmute gives  *)
(* the State of each value                                                  *)
MainState(h, state, ok) ==
    LET item == TwinEntry(h)
        new_state == state
        was_active == IsActivated(item)
        is_active == Contains(new_state, Activated)
        emitted == IF was_active /\ ~is_active THEN MainEmitted(item) ELSE None
        focused_since == IF was_active /\ ~is_active THEN None
                         ELSE IF is_active /\ ~was_active THEN Some(InstantNow)
                         ELSE item.focused_since
    IN  twin' = [toplevels |-> TwinPut(h, [item EXCEPT
                                  !.focused_since = focused_since,
                                  !.state = Some(new_state)]),
                 db |-> MainWritten(twin.db, emitted, ok)]

(* Event::Closed *)
MainClosed(h, ok) ==
    LET item == TwinEntry(h)
        emitted == IF IsActivated(item) THEN MainEmitted(item) ELSE None
    IN  twin' = [toplevels |-> [k \in (DOMAIN twin.toplevels) \ {h} |->
                                  twin.toplevels[k]],
                 db |-> MainWritten(twin.db, emitted, ok)]

(* the rows stored by the Idled loop of main.rs visiting `order` *)
RECURSIVE MainIdledDb(_, _, _)
MainIdledDb(order, rows, ok) ==
    IF order = << >> THEN rows
    ELSE MainIdledDb(Tail(order),
                     MainWritten(rows, MainEmitted(twin.toplevels[Head(order)]), ok),
                     ok)

(* Event::Idled: values_mut() visits the HashMap of this copy in an order   *)
(* of its own                                                               *)
MainIdled(ok) ==
    LET open == {h \in DOMAIN twin.toplevels : IsSome(twin.toplevels[h].focused_since)}
    IN  \E order \in Orders(open) :
           twin' = [toplevels |-> [h \in DOMAIN twin.toplevels |->
                                     IF h \in open
                                     THEN [twin.toplevels[h] EXCEPT !.focused_since = None]
                                     ELSE twin.toplevels[h]],
                    db |-> MainIdledDb(order, twin.db, ok)]

(* Event::Resumed *)
MainResumed ==
    twin' = [twin EXCEPT
               !.toplevels = [h \in DOMAIN twin.toplevels |->
                                IF IsActivated(twin.toplevels[h])
                                THEN [twin.toplevels[h] EXCEPT
                                         !.focused_since = Some(InstantNow)]
                                ELSE twin.toplevels[h]]]

(* Both copies of the engine fed the same AppId, State, Closed, Idled and   *)
(* Resumed events at the same readings of the clocks; every write succeeds  *)
(* in both.                                                                 *)

ObservePair ==
    UNCHANGED <<runStart, sawIdle, unrecorded, repeated, opened, idledRun, answer>>

NextPair ==
    \/ Tick /\ UNCHANGED twin /\ HistStays /\ ObservePair
    \/ \E h \in Handles : \E app_id \in AppIds :
          AppId(h, app_id) /\ MainAppId(h, app_id) /\ HistStays /\ ObservePair
    \/ \E h \in Handles : \E state \in StateArrays :
          /\ State(h, state) /\ warned' = 0
          /\ MainState(h, state, TRUE) /\ HistStays /\ ObservePair
    \/ \E h \in Handles :
          /\ Closed(h) /\ warned' = 0
          /\ MainClosed(h, TRUE) /\ HistStays /\ ObservePair
    \/ Idled /\ warned' = 0 /\ MainIdled(TRUE) /\ HistStays /\ ObservePair
    \/ Resumed /\ MainResumed /\ HistResumed /\ ObservePair

SpecPair == Init /\ [][NextPair]_vars

----------------------------------------------------------------------------
(* The daemon from the start of the process: main() up to its dispatch     *)
(* loop, then the events of one toplevel in any order, State events with    *)
(* any array the wire can carry.                                            *)

Dispatched(h) ==
    /\ main.pc = "dispatch"
    /\ h = Watched

NextMain ==
    \/ Connect /\ HistStays /\ UNCHANGED hist
    \/ NewAppState /\ HistStays /\ UNCHANGED hist
    \/ \E interface \in Interfaces : Global(interface) /\ HistStays /\ UNCHANGED hist
    \/ RoundtripReturns /\ HistStays /\ UNCHANGED hist
    \/ CheckCapabilities /\ HistStays /\ UNCHANGED hist
    \/ DispatchFails /\ HistStays /\ UNCHANGED hist
    \/ main.pc = "dispatch" /\ Tick /\ HistStays /\ UNCHANGED hist
    \/ \E h \in Handles : \E app_id \in AppIds :
          Dispatched(h) /\ AppId(h, app_id) /\ HistStays /\ UNCHANGED hist
    \/ \E h \in Handles : \E state \in WireArrays :
          Dispatched(h) /\ State(h, state) /\ HistStays /\ UNCHANGED hist
    \/ \E h \in Handles : Dispatched(h) /\ Closed(h) /\ HistStays /\ UNCHANGED hist
    \/ \E h \in Handles : Dispatched(h) /\ OtherEvent(h) /\ HistStays /\ UNCHANGED hist
    \/ main.pc = "dispatch" /\ Idled /\ HistStays /\ UNCHANGED hist
    \/ main.pc = "dispatch" /\ Resumed /\ HistResumed /\ UNCHANGED hist

SpecMain == InitMain /\ [][NextMain]_vars

----------------------------------------------------------------------------
(* The engine fed activation snapshots and app ids only; the runs of        *)
(* activated snapshots of Watched are kept.                                 *)

ObserveSnap ==
    HistStays /\ HistRun /\ UNCHANGED <<sawIdle, unrecorded, repeated, opened, idledRun, twin, answer>>

NextSnap ==
    \/ Tick /\ ObserveSnap
    \/ \E h \in Handles : \E app_id \in AppIds : AppId(h, app_id) /\ ObserveSnap
    \/ \E h \in Handles : \E state \in StateArrays : State(h, state) /\ ObserveSnap

SpecSnap == Init /\ [][NextSnap]_vars

----------------------------------------------------------------------------
(* The viewer (tui-app/src/db.rs): the queries it runs on the table the     *)
(* daemon has written.  A query is computed as its SQL statement computes   *)
(* it: the WHERE clause selects rows, sum(duration) adds them up.           *)

(* where start_time >= ? and start_time < ? *)
InWindow(row, start_time, end_time) ==
    row.start_time >= start_time /\ row.start_time < end_time

(* sum(duration) over the selected rows; NULL is not modelled here, the     *)
(* callers decide what no row means                                         *)
RECURSIVE SumDuration(_)
SumDuration(rows) ==
    IF rows = << >> THEN 0 ELSE Head(rows).duration + SumDuration(Tail(rows))

GetDataThroughEnd(rows, app_name, start_time, end_time) ==
    LET selected == SelectSeq(rows, LAMBDA row :
                        /\ row.app_name = app_name
                        /\ row.start_time >= start_time
                        /\ row.start_time <= end_time)
    IN  IF selected = << >> THEN 0 ELSE SumDuration(selected)

(* get_data_for_app_and_time: sum(duration) is NULL when no row is          *)
(* selected, row.get::<u64> fails on it and unwrap_or(0) answers 0          *)
GetDataForAppAndTime(rows, app_name, start_time, end_time) ==
    LET selected == SelectSeq(rows, LAMBDA row :
                        row.app_name = app_name /\ InWindow(row, start_time, end_time))
    IN  IF selected = << >> THEN 0 ELSE SumDuration(selected)

(* get_total_app_usage: every row of the app, NULL answered as 0 *)
GetTotalAppUsage(rows, app_name) ==
    LET selected == SelectSeq(rows, LAMBDA row : row.app_name = app_name)
    IN  IF selected = << >> THEN 0 ELSE SumDuration(selected)

GetDataForTimeOverlapping(rows, start_time, end_time) ==
    LET selected == SelectSeq(rows, LAMBDA row :
                        row.start_time < end_time /\ row.end_time > start_time)
    IN  IF selected = << >> THEN 0 ELSE SumDuration(selected)

(* get_data_for_time: the rows of every app in the window, NULL answered as 0 *)
GetDataForTime(rows, start_time, end_time) ==
    LET selected == SelectSeq(rows, LAMBDA row : InWindow(row, start_time, end_time))
    IN  IF selected = << >> THEN 0 ELSE SumDuration(selected)

(* the rows list_apps groups: all of them without a time_range *)
Selected(rows, time_range) ==
    IF IsSome(time_range)
    THEN SelectSeq(rows, LAMBDA row :
             InWindow(row, Unwrap(time_range)[1], Unwrap(time_range)[2]))
    ELSE rows

(* group by app_name: the total of one group *)
GroupTotal(selected, app_name) ==
    SumDuration(SelectSeq(selected, LAMBDA row : row.app_name = app_name))

ListAppsAscending(rows, time_range) ==
    LET selected == Selected(rows, time_range)
        names == {selected[i].app_name : i \in DOMAIN selected}
        sorted == {o \in Orders(names) : \A i, j \in DOMAIN o :
                      i < j => GroupTotal(selected, o[i]) <= GroupTotal(selected, o[j])}
    IN  {[i \in DOMAIN o |-> <<o[i], GroupTotal(selected, o[i])>>] : o \in sorted}

(* list_apps: the Vec<(String, u64)> it can return.  ORDER BY               *)
(* total_duration DESC leaves the order of equal totals to SQLite, so the   *)
(* result is one of the orderings that are descending.                      *)
ListApps(rows, time_range) ==
    LET selected == Selected(rows, time_range)
        names == {selected[i].app_name : i \in DOMAIN selected}
        sorted == {o \in Orders(names) : \A i, j \in DOMAIN o :
                      i < j => GroupTotal(selected, o[i]) >= GroupTotal(selected, o[j])}
    IN  {[i \in DOMAIN o |-> <<o[i], GroupTotal(selected, o[i])>>] : o \in sorted}

(* the rows insert_usage can have stored: start_time, end_time and duration *)
(* are truncated one by one, so end_time - start_time is duration or one    *)
(* millisecond more                                                         *)
StoredRows ==
    {[app_name |-> app_name, start_time |-> start_time,
      end_time |-> start_time + duration + carry, duration |-> duration] :
        app_name \in StoredApps, start_time \in 0..MaxStamp,
        duration \in 0..MaxStamp, carry \in 0..1}

Tables == UNION {[1..n -> StoredRows] : n \in 0..MaxStored}

(* the arguments of a query: u64 milliseconds, in any order *)
Stamps == 0..(MaxStamp + 1)
TimeRanges == {None} \cup {Some(<<start_time, end_time>>) :
                              start_time \in Stamps, end_time \in Stamps}

(* everything but the viewer's answer *)
daemon == <<now, skew, toplevels, db, warned, main, owner, idle, resumedIn,
            runStart, sawIdle, unrecorded, repeated, opened, idledRun, twin>>

(* the viewer opens a table written by earlier runs of the daemon *)
InitQuery ==
    /\ now = 0
    /\ skew = 0
    /\ toplevels = << >>
    /\ db \in Tables
    /\ warned = 0
    /\ main = Dispatching
    /\ answer = None
    /\ owner = [i \in DOMAIN db |-> Watched]
    /\ idle = FALSE
    /\ resumedIn = None
    /\ runStart = None
    /\ sawIdle = FALSE
    /\ unrecorded = 0
    /\ repeated = FALSE
    /\ opened = None
    /\ idledRun = 0
    /\ twin = [toplevels |-> << >>, db |-> << >>]

(* the viewer calls get_data_for_app_and_time(conn, app_name, start, end) *)
ViewAppAndTime(app_name, start_time, end_time) ==
    /\ answer' = Some([query |-> "get_data_for_app_and_time",
                       app_name |-> app_name,
                       time_range |-> Some(<<start_time, end_time>>),
                       total |-> GetDataForAppAndTime(db, app_name, start_time, end_time)])
    /\ UNCHANGED daemon

(* the viewer calls list_apps(conn, time_range) *)
ViewApps(time_range) ==
    /\ \E apps \in ListApps(db, time_range) :
          answer' = Some([query |-> "list_apps",
                          time_range |-> time_range,
                          apps |-> apps])
    /\ UNCHANGED daemon

(* the viewer calls get_total_app_usage(conn, app_name) *)
ViewAppUsage(app_name) ==
    /\ answer' = Some([query |-> "get_total_app_usage",
                       app_name |-> app_name,
                       time_range |-> None,
                       total |-> GetTotalAppUsage(db, app_name)])
    /\ UNCHANGED daemon

(* the viewer calls get_data_for_time(conn, (start_time, end_time)) *)
ViewTime(start_time, end_time) ==
    /\ answer' = Some([query |-> "get_data_for_time",
                       time_range |-> Some(<<start_time, end_time>>),
                       total |-> GetDataForTime(db, start_time, end_time)])
    /\ UNCHANGED daemon

NextQuery ==
    \/ \E app_name \in StoredApps : \E start_time \in Stamps : \E end_time \in Stamps :
          ViewAppAndTime(app_name, start_time, end_time)
    \/ \E time_range \in TimeRanges : ViewApps(time_range)
    \/ \E app_name \in StoredApps : ViewAppUsage(app_name)
    \/ \E start_time \in Stamps : \E end_time \in Stamps : ViewTime(start_time, end_time)

SpecQuery == InitQuery /\ [][NextQuery]_vars

----------------------------------------------------------------------------
(* What a step does to the toplevel h *)

ItemBefore(h) == Entry(h)
ItemAfter(h) == IF h \in DOMAIN toplevels' THEN toplevels'[h] ELSE DefaultInfo

(* the step ends the open session of h *)
Ends(h) == IsSome(ItemBefore(h).focused_since) /\ ~IsSome(ItemAfter(h).focused_since)

(* the rows the step stores for h *)
NewRows(h) ==
    SubSeq(RowsOf(h, db', owner'), Len(RowsOf(h, db, owner)) + 1,
           Len(RowsOf(h, db', owner')))

(* the interval of a session of `app` that ran from clock reading `since` *)
(* to the current event, in the stored units                              *)
Interval(app, since) ==
    [app_name |-> app,
     start_time |-> (since + UnixOffset + skew) \div TicksPerMs,
     end_time |-> (now + UnixOffset + skew) \div TicksPerMs,
     duration |-> (now - since) \div TicksPerMs]

(* the step emits exactly one interval for h, the one of a session begun at *)
(* `since`: the row is stored, or the write fails and a warning is logged   *)
EmitsOne(h, since) ==
    \/ NewRows(h) = <<Interval(Unwrap(ItemBefore(h).app_id), since)>>
    \/ NewRows(h) = << >> /\ warned' >= 1

----------------------------------------------------------------------------
(* C1  Idle exclusion.  For a toplevel with an app identifier that stays     *)
(* activated across Idled and Resumed: Idled emits exactly one interval, of  *)
(* the session so far, ending at the Idled event; after Resumed its session  *)
(* is the one opened at the Resumed event, and when that session ends        *)
(* exactly one interval is emitted that starts at the Resumed event.  The    *)
(* span from Idled to Resumed lies in neither.                               *)
C1_IdleExclusion ==
    /\ [](~idle /\ IsSome(resumedIn) => Entry(Watched).focused_since = resumedIn)
    /\ [][ /\ ( /\ Ends(Watched)
                /\ IsActivated(ItemAfter(Watched))
                /\ IsSome(ItemBefore(Watched).app_id) )
              => ( /\ idle'
                   /\ EmitsOne(Watched, Unwrap(ItemBefore(Watched).focused_since)) )
           /\ ( /\ Ends(Watched)
                /\ ~idle
                /\ IsSome(resumedIn)
                /\ IsSome(ItemBefore(Watched).app_id) )
              => EmitsOne(Watched, Unwrap(resumedIn)) ]_vars

(* Watched has stayed activated since the Resumed at resumedIn, the system   *)
(* went idle again, and Watched has two rows: one that ended before the      *)
(* Resumed, and one that starts at the Resumed and ends now.                 *)
C1_Witness ==
    /\ idle
    /\ IsSome(resumedIn)
    /\ Unwrap(resumedIn) < now
    /\ Len(RowsOf(Watched, db, owner)) = 2
    /\ RowsOf(Watched, db, owner)[1].end_time <= AsMillis(Unwrap(resumedIn) + UnixOffset)
    /\ RowsOf(Watched, db, owner)[2] = Interval("a", Unwrap(resumedIn))

(* C3  No session is open while the system is idle. *)
C3_NoSessionWhileIdle ==
    \A h \in DOMAIN toplevels : IsSome(toplevels[h].focused_since) => ~idle

(* C4  An entry with an open session has its activated bit set. *)
C4_OpenImpliesActivated ==
    \A h \in DOMAIN toplevels :
        IsSome(toplevels[h].focused_since) => IsActivated(toplevels[h])

(* an entry holds a session that has been open for some time, with rows  *)
(* already stored                                                        *)
C4_Witness ==
    \E h \in DOMAIN toplevels :
        /\ IsSome(toplevels[h].focused_since)
        /\ Unwrap(toplevels[h].focused_since) < now
        /\ Len(db) > 0

(* C5  Close flushes.  When Closed removes an entry that has an open session *)
(* and an app identifier, exactly one interval is emitted for it, whose      *)
(* duration is the time since the session was opened.                        *)
C5_CloseFlushes ==
    [][ \A h \in Handles :
          ( /\ h \in DOMAIN toplevels
            /\ h \notin DOMAIN toplevels'
            /\ IsSome(toplevels[h].focused_since)
            /\ IsSome(toplevels[h].app_id) )
          => EmitsOne(h, Unwrap(toplevels[h].focused_since)) ]_vars

(* the last row was stored for a session of at least a millisecond that  *)
(* ended now, and its toplevel is gone                                   *)
C5_Witness ==
    /\ Len(db) > 0
    /\ owner[Len(owner)] \notin DOMAIN toplevels
    /\ db[Len(db)].end_time = AsMillis(SystemTimeNow)
    /\ db[Len(db)].duration >= 1

(* C2  Time spent idle is never counted: when Idled and Resumed alternate,  *)
(* no interval of a millisecond or more is stored for a session that spans  *)
(* idle time.                                                               *)
C2_IdleNeverCounted ==
    [][ \A i \in DOMAIN NewRows(Watched) :
            NewRows(Watched)[i].duration >= 1 => ~sawIdle ]_vars

(* C6  Closed removes the entry of its handle whatever its state, and an    *)
(* event for a handle that has no entry works on a default entry: the new   *)
(* entry is what the event makes of ToplevelInfo::default(), and no         *)
(* interval is emitted for the handle.                                      *)
C6_ClosedRemoves ==
    [][ \A h \in Handles :
          /\ Closed(h) => h \notin DOMAIN toplevels'
          /\ (h \notin DOMAIN toplevels /\ h \in DOMAIN toplevels')
                => /\ NewRows(h) = << >>
                   /\ \/ toplevels'[h] = DefaultInfo
                      \/ \E app_id \in AppIds :
                            toplevels'[h] = [app_id |-> Some(app_id),
                                             focused_since |-> None, state |-> None]
                      \/ \E state \in StateArrays :
                            toplevels'[h] =
                              [app_id |-> None,
                               focused_since |-> IF Contains(state, Activated)
                                                 THEN Some(now) ELSE None,
                               state |-> Some(state)] ]_vars

(* a handle whose session was flushed by Closed has an entry again, with no *)
(* app id: the entry that stored the row is gone                            *)
C6_Witness ==
    \E i \in DOMAIN owner :
        /\ owner[i] \in DOMAIN toplevels
        /\ toplevels[owner[i]].app_id = None
        /\ IsSome(toplevels[owner[i]].focused_since)

(* C7  No lost focused time: when Idled and Resumed alternate and every      *)
(* session of the toplevel is recorded, then whenever it has no open session *)
(* the durations emitted for it add up to the time it spent activated while  *)
(* the system was not idle, to less than a millisecond.                      *)
C7_NoLostTime ==
    ~IsSome(Entry(Watched).focused_since)
        => (unrecorded < TicksPerMs /\ -unrecorded < TicksPerMs)

(* C8  No double session: fed snapshots only, a session that is open is the  *)
(* one opened by the first snapshot of the current run of activated          *)
(* snapshots, and an interval is emitted for the toplevel only by the        *)
(* snapshot that ends the run: one interval, of the whole run.               *)
C8_NoDoubleSession ==
    /\ [](IsSome(Entry(Watched).focused_since)
            => Entry(Watched).focused_since = runStart)
    /\ [][ (NewRows(Watched) # << >> \/ Ends(Watched))
             => /\ IsSome(runStart)
                /\ runStart' = None
                /\ IsSome(ItemBefore(Watched).app_id)
                      => EmitsOne(Watched, Unwrap(runStart))
                /\ ~IsSome(ItemBefore(Watched).app_id) => NewRows(Watched) = << >>
          ]_vars

(* two runs of Watched have ended, each with its one row, and a third run   *)
(* has been going on for some time                                          *)
C8_Witness ==
    /\ Len(RowsOf(Watched, db, owner)) = 2
    /\ IsSome(runStart)
    /\ Unwrap(runStart) < now
    /\ Entry(Watched).focused_since = runStart

(* C9  An open session is never replaced without being closed first: a step *)
(* that changes the focused_since of an entry from one reading to another    *)
(* emits the interval of the session it replaces.                            *)
C9_NoReplacement ==
    [][ \A h \in Handles :
          ( /\ IsSome(ItemBefore(h).focused_since)
            /\ IsSome(ItemAfter(h).focused_since)
            /\ ItemAfter(h).focused_since # ItemBefore(h).focused_since
            /\ IsSome(ItemBefore(h).app_id) )
          => EmitsOne(h, Unwrap(ItemBefore(h).focused_since)) ]_vars

(* C10  The intervals stored for one handle never overlap: each starts at   *)
(* or after the end of every interval stored before it for that handle.     *)
C10_NoOverlapPerHandle ==
    \A i, j \in DOMAIN db :
        (i < j /\ owner[i] = owner[j]) => db[j].start_time >= db[i].end_time

(* a handle has two rows, the first of a session of at least a millisecond, *)
(* and the wall clock has been stepped                                      *)
C10_Witness ==
    \E i, j \in DOMAIN db :
        /\ i < j
        /\ owner[i] = owner[j]
        /\ db[i].duration >= 1
        /\ skew > 0

(* C11  No two stored intervals cover a common instant, whatever handles    *)
(* they belong to: of two rows of a millisecond or more, one ends at or     *)
(* before the start of the other.                                           *)
C11_NoOverlapAcrossHandles ==
    \A i, j \in DOMAIN db :
        (i < j /\ db[i].duration >= 1 /\ db[j].duration >= 1)
            => \/ db[i].end_time <= db[j].start_time
               \/ db[j].end_time <= db[i].start_time

(* C12  Unattributed drop.  A row is stored for a handle only by an event   *)
(* that finds its entry with an app id.  When an inactive snapshot, Idled   *)
(* or Closed reaches an entry that has an open session and no app id, no    *)
(* write is attempted for it and the session is cleared all the same (the   *)
(* entry is removed by Closed).                                             *)
C12_UnattributedDrop ==
    [][ \A h \in Handles :
          /\ (db' # db /\ NewRows(h) # << >>) => IsSome(ItemBefore(h).app_id)
          /\ ( /\ IsSome(ItemBefore(h).focused_since)
               /\ ~IsSome(ItemBefore(h).app_id) )
             => /\ \A state \in StateArrays :
                      (~Contains(state, Activated) /\ State(h, state))
                         => (~IsSome(ItemAfter(h).focused_since) /\ warned' = 0)
                /\ (idle' /\ Idled) => ~IsSome(ItemAfter(h).focused_since)
                /\ Closed(h) => (h \notin DOMAIN toplevels' /\ warned' = 0) ]_vars

(* Watched has no app id and no row; it has stayed activated since the      *)
(* Resumed at resumedIn, the system has gone idle since, and its session is *)
(* cleared                                                                  *)
C12_Witness ==
    /\ idle
    /\ IsSome(resumedIn)
    /\ Unwrap(resumedIn) < now
    /\ Watched \in DOMAIN toplevels
    /\ ~IsSome(toplevels[Watched].app_id)
    /\ ~IsSome(toplevels[Watched].focused_since)
    /\ RowsOf(Watched, db, owner) = << >>

(* C14  A failed write is not fatal and leaves the registry as a successful *)
(* one does.  On a step that logs a failed write the engine goes on, and    *)
(* the registry it leaves is the one a completed close leaves: the entry of *)
(* one attributed open session with the session cleared and an inactive     *)
(* snapshot stored, or that entry removed, or every open session cleared.   *)
(* On every step each attributed session that ends is stored once or        *)
(* dropped with one warning, and a row is stored only for the session that  *)
(* ends in that step: a dropped interval is never written later.            *)
C14_FailedWriteClears ==
    [][ LET attributed == {h \in DOMAIN toplevels :
                             /\ IsSome(toplevels[h].focused_since)
                             /\ IsSome(toplevels[h].app_id)}
            inactive == {state \in StateArrays : ~Contains(state, Activated)}
        IN  /\ warned' >= 1 =>
                 /\ main' = main
                 /\ \/ \E h \in attributed : \E state \in inactive :
                          toplevels' = [toplevels EXCEPT
                                          ![h].focused_since = None,
                                          ![h].state = Some(state)]
                    \/ \E h \in attributed :
                          toplevels' = [k \in (DOMAIN toplevels) \ {h} |-> toplevels[k]]
                    \/ toplevels' = [k \in DOMAIN toplevels |->
                                       [toplevels[k] EXCEPT !.focused_since = None]]
            /\ (db' # db \/ warned' >= 1) =>
                 /\ Cardinality({h \in attributed : Ends(h)})
                        = Len(db') - Len(db) + warned'
                 /\ \A h \in Handles :
                        NewRows(h) # << >> =>
                           /\ Ends(h)
                           /\ NewRows(h) = <<Interval(Unwrap(ItemBefore(h).app_id),
                                                       Unwrap(ItemBefore(h).focused_since))>>
      ]_vars

(* Idled has just failed to write the sessions of two attributed toplevels: *)
(* nothing is stored, both sessions are cleared, both stay activated        *)
C14_Witness ==
    /\ warned = 2
    /\ db = << >>
    /\ idle
    /\ now > 0
    /\ \A h \in Handles :
          /\ h \in DOMAIN toplevels
          /\ IsSome(toplevels[h].app_id)
          /\ IsActivated(toplevels[h])
          /\ ~IsSome(toplevels[h].focused_since)

(* C19  The store is append-only.  Every step leaves the rows stored so far *)
(* in place and unchanged; a row is appended for a handle only by a step    *)
(* that ends its open session, one row at most per handle; and a step that  *)
(* appends rows for more than one handle is Idled.                          *)
C19_AppendOnly ==
    [][ /\ Len(db') >= Len(db)
        /\ SubSeq(db', 1, Len(db)) = db
        /\ db' # db =>
              /\ \A h \in Handles :
                    /\ Len(NewRows(h)) <= 1
                    /\ NewRows(h) # << >> => Ends(h)
              /\ Len(db') > Len(db) + 1 => Idled
              /\ Len(db') - Len(db)
                    <= Cardinality({h \in DOMAIN toplevels :
                                      IsSome(toplevels[h].focused_since)})
      ]_vars

(* two rows of two handles that end at the same reading of the clock, the   *)
(* system idle and both toplevels still activated: one Idled appended one   *)
(* row per open session                                                     *)
C19_Witness ==
    /\ Len(db) = 2
    /\ owner[1] # owner[2]
    /\ db[1].end_time = AsMillis(SystemTimeNow)
    /\ db[2].end_time = AsMillis(SystemTimeNow)
    /\ db[1].duration >= 1
    /\ idle
    /\ warned = 0
    /\ \A h \in Handles :
          /\ h \in DOMAIN toplevels
          /\ IsActivated(toplevels[h])
          /\ ~IsSome(toplevels[h].focused_since)

(* C16  Every stored row satisfies duration = end_time - start_time, in the *)
(* stored units.                                                            *)
C16_DurationIsEndMinusStart ==
    \A i \in DOMAIN db : db[i].end_time - db[i].start_time = db[i].duration

(* C13  Idempotent snapshot.  A State event whose activated bit equals the  *)
(* bit stored for its entry stores no row, attempts no write and changes    *)
(* nothing in the registry but the snapshot stored for that entry: app_id   *)
(* and focused_since stay, and so does every other entry.                   *)
C13_SameBitChangesNothing ==
    [][ repeated' =>
          /\ db' = db
          /\ warned' = 0
          /\ ItemAfter(Watched).focused_since = ItemBefore(Watched).focused_since
          /\ ItemAfter(Watched).app_id = ItemBefore(Watched).app_id
          /\ IsSome(ItemAfter(Watched).state)
          /\ IsActivated(ItemAfter(Watched)) <=> IsActivated(ItemBefore(Watched))
          /\ \A h \in Handles \ {Watched} :
                /\ h \in DOMAIN toplevels' <=> h \in DOMAIN toplevels
                /\ h \in DOMAIN toplevels => toplevels'[h] = toplevels[h]
      ]_vars

(* the last event was an activated snapshot for Watched, which was already  *)
(* activated: its session, opened some time ago, is still the same, and the *)
(* snapshot stored is the new one                                           *)
C13_Witness ==
    /\ repeated
    /\ IsSome(Entry(Watched).focused_since)
    /\ Unwrap(Entry(Watched).focused_since) < now
    /\ Entry(Watched).state = Some(<<Maximized, Activated>>)
    /\ IsSome(Entry(Watched).app_id)

(* C15  A malformed snapshot fails closed.  A State event whose array holds *)
(* a value that is no state flag leaves the activated bit and the session   *)
(* of its entry as they were, stores no row, and the engine goes on         *)
(* dispatching events.                                                      *)
C15_MalformedFailsClosed ==
    [][ \A h \in Handles : \A state \in WireArrays :
          (~Decodes(state) /\ main.pc = "dispatch" /\ State(h, state))
             => /\ main'.pc = "dispatch"
                /\ db' = db
                /\ ItemAfter(h).focused_since = ItemBefore(h).focused_since
                /\ IsActivated(ItemAfter(h)) <=> IsActivated(ItemBefore(h)) ]_vars

(* C20  The engine is never driven without both capabilities.  main is in  *)
(* its dispatch loop only with the toplevel manager and the idle notifier   *)
(* bound; when registry discovery ends with either of them missing, main    *)
(* logs the error that names it and returns; and no window or idle event is *)
(* processed, and no row stored, before main is in its dispatch loop.       *)
C20_BothCapabilities ==
    /\ [](main.pc = "dispatch" => (main.toplevel_manager /\ main.idle_notifier))
    /\ [][ /\ (main.pc = "check" /\ ~main.toplevel_manager)
               => (main'.pc = "returned" /\ main'.error = "toplevel manager")
           /\ (main.pc = "check" /\ main.toplevel_manager /\ ~main.idle_notifier)
               => (main'.pc = "returned" /\ main'.error = "idle notifier")
           /\ main.pc = "returned" => main'.pc = "returned"
           /\ (toplevels' # toplevels \/ db' # db \/ idle' # idle)
               => main.pc = "dispatch" ]_vars

(* the compositor advertised the toplevel manager and a seat but no idle    *)
(* notifier: main has logged that and returned, and no event was processed  *)
C20_Witness ==
    /\ main.pc = "returned"
    /\ main.toplevel_manager
    /\ ~main.idle_notifier
    /\ main.seats = 1
    /\ main.error = "idle notifier"
    /\ toplevels = << >>
    /\ db = << >>

----------------------------------------------------------------------------
(* Totals over the stored rows, computed from the table itself *)

(* the rows of app_name, or of every app when app_name is None, by index *)
RowsNamed(app_name) ==
    {i \in DOMAIN db : IsSome(app_name) => db[i].app_name = Unwrap(app_name)}

(* the rows whose start_time lies in [start, end); every row without a range *)
StartsWithin(time_range) ==
    {i \in DOMAIN db : IsSome(time_range) =>
        /\ db[i].start_time >= Unwrap(time_range)[1]
        /\ db[i].start_time < Unwrap(time_range)[2]}

(* the rows whose interval lies in [start, end): it starts in the window and *)
(* does not end after it                                                     *)
FallsWithin(time_range) ==
    {i \in DOMAIN db : IsSome(time_range) =>
        /\ db[i].start_time >= Unwrap(time_range)[1]
        /\ db[i].start_time < Unwrap(time_range)[2]
        /\ db[i].end_time <= Unwrap(time_range)[2]}

RECURSIVE TotalOf(_)
TotalOf(indices) ==
    IF indices = {} THEN 0
    ELSE LET i == CHOOSE i \in indices : TRUE
         IN  db[i].duration + TotalOf(indices \ {i})

Answered(query) == IsSome(answer) /\ Unwrap(answer).query = query

(* apps lists exactly the apps with a row in `indices`, once each, each with *)
(* the total duration of its rows in `indices`, largest total first          *)
Lists(apps, indices) ==
    /\ {apps[k][1] : k \in DOMAIN apps} = {db[i].app_name : i \in indices}
    /\ \A k, l \in DOMAIN apps : apps[k][1] = apps[l][1] => k = l
    /\ \A k \in DOMAIN apps :
          apps[k][2] = TotalOf(indices \cap RowsNamed(Some(apps[k][1])))
    /\ \A k, l \in DOMAIN apps : k < l => apps[k][2] >= apps[l][2]

(* C17, as stated: get_data_for_app_and_time(X, start, end) is the sum of   *)
(* the durations of the stored intervals of X that fall within [start,end), *)
(* an interval being the span from its start_time to its end_time.          *)
C17_SumOfIntervalsWithin ==
    Answered("get_data_for_app_and_time") =>
        Unwrap(answer).total =
            TotalOf(RowsNamed(Some(Unwrap(answer).app_name))
                        \cap FallsWithin(Unwrap(answer).time_range))

(* C17, amended: get_data_for_app_and_time(X, start, end) is the sum of the *)
(* whole durations of the stored rows of X whose start_time is in           *)
(* [start,end), wherever they end, and 0 when there is no such row.         *)
C17_SumOfIntervalsStartingWithin ==
    Answered("get_data_for_app_and_time") =>
        Unwrap(answer).total =
            TotalOf(RowsNamed(Some(Unwrap(answer).app_name))
                        \cap StartsWithin(Unwrap(answer).time_range))

(* two rows of X: one starts inside the window and ends after it, one starts *)
(* at or after the end of the window; the answer is the first one's duration *)
C17_Witness ==
    /\ Answered("get_data_for_app_and_time")
    /\ Len(db) = 2
    /\ db[1].app_name = Unwrap(answer).app_name
    /\ db[2].app_name = Unwrap(answer).app_name
    /\ db[1].start_time >= Unwrap(Unwrap(answer).time_range)[1]
    /\ db[1].start_time < Unwrap(Unwrap(answer).time_range)[2]
    /\ db[1].end_time > Unwrap(Unwrap(answer).time_range)[2]
    /\ db[2].start_time >= Unwrap(Unwrap(answer).time_range)[2]
    /\ db[2].duration >= 1
    /\ Unwrap(answer).total = db[1].duration
    /\ Unwrap(answer).total >= 1

(* C18, as stated: list_apps returns one row per app name that has at least *)
(* one interval in the optional [start,end) window, each with that app's    *)
(* total duration in the window, ordered by total duration descending, an   *)
(* interval being the span from its start_time to its end_time.             *)
C18_OneRowPerAppInWindow ==
    Answered("list_apps") =>
        Lists(Unwrap(answer).apps, FallsWithin(Unwrap(answer).time_range))

(* C18, amended: list_apps returns one row per app name that has at least   *)
(* one stored row whose start_time is in the optional [start,end) window    *)
(* (every stored row when no window is given), each with the total of the   *)
(* whole durations of those rows, ordered by that total descending.         *)
C18_OneRowPerAppStartingInWindow ==
    Answered("list_apps") =>
        Lists(Unwrap(answer).apps, StartsWithin(Unwrap(answer).time_range))

(* a window, two apps with a row starting inside it, one of the rows ending *)
(* after the window; both apps are listed, the larger total first           *)
C18_Witness ==
    /\ Answered("list_apps")
    /\ IsSome(Unwrap(answer).time_range)
    /\ Len(db) = 2
    /\ db[1].app_name # db[2].app_name
    /\ StartsWithin(Unwrap(answer).time_range) = {1, 2}
    /\ db[1].end_time > Unwrap(Unwrap(answer).time_range)[2]
    /\ db[1].duration < db[2].duration
    /\ Unwrap(answer).apps = << <<db[2].app_name, db[2].duration>>,
                                <<db[1].app_name, db[1].duration>> >>

(* C21  Resumed opens a fresh session, at the reading of the clock of the   *)
(* Resumed event, for every entry whose stored snapshot is activated,       *)
(* whether or not it had a session (opened before or during the idle        *)
(* period), and leaves every other entry as it is; it emits nothing.  The   *)
(* snapshot that activates a toplevel while the system is idle emits no     *)
(* interval for it either, so after Resumed the session of such a toplevel  *)
(* starts at the Resumed event and nothing was recorded at the activation.  *)
C21_ResumedOpensFresh ==
    [][ /\ Resumed =>
              /\ DOMAIN toplevels' = DOMAIN toplevels
              /\ \A h \in DOMAIN toplevels :
                    IF IsSome(toplevels[h].state)
                          /\ Contains(Unwrap(toplevels[h].state), Activated)
                    THEN toplevels'[h] =
                            [toplevels[h] EXCEPT !.focused_since = Some(now)]
                    ELSE toplevels'[h] = toplevels[h]
              /\ db' = db
              /\ warned' = 0
        /\ \A h \in Handles :
              (idle /\ ~IsActivated(ItemBefore(h)) /\ IsActivated(ItemAfter(h)))
                 => (NewRows(h) = << >> /\ warned' = 0)
      ]_vars

(* Resumed has just been delivered, some time after the start: Watched is   *)
(* activated and its session starts now, nothing has been stored for it,    *)
(* and the other toplevel, not activated, has no session                    *)
C21_Witness ==
    /\ ~idle
    /\ now >= 2
    /\ resumedIn = Some(now)
    /\ Entry(Watched).focused_since = Some(now)
    /\ RowsOf(Watched, db, owner) = << >>
    /\ \E h \in DOMAIN toplevels :
          /\ h # Watched
          /\ IsSome(toplevels[h].state)
          /\ ~IsActivated(toplevels[h])
          /\ ~IsSome(toplevels[h].focused_since)

(* C22  Idled closes every open session in one batch.  After an Idled event *)
(* no entry has focused_since set; each entry that had an open session and  *)
(* an app id gets exactly one interval emitted, of its session up to the    *)
(* event, and no other entry gets one; an entry without an open session is  *)
(* unchanged; no entry is added or removed and no entry's snapshot or app   *)
(* id changes.                                                              *)
C22_IdledClosesAll ==
    [][ Idled =>
          LET open == {h \in DOMAIN toplevels : IsSome(toplevels[h].focused_since)}
              attributed == {h \in open : IsSome(toplevels[h].app_id)}
          IN  /\ DOMAIN toplevels' = DOMAIN toplevels
              /\ \A h \in DOMAIN toplevels :
                    /\ ~IsSome(toplevels'[h].focused_since)
                    /\ toplevels'[h].state = toplevels[h].state
                    /\ toplevels'[h].app_id = toplevels[h].app_id
                    /\ h \notin open => toplevels'[h] = toplevels[h]
              /\ \A h \in attributed :
                    EmitsOne(h, Unwrap(toplevels[h].focused_since))
              /\ \A h \in Handles \ attributed : NewRows(h) = << >>
              /\ Len(db') - Len(db) + warned' = Cardinality(attributed)
      ]_vars

(* Idled has just closed two sessions at once: the one of Watched, of a     *)
(* millisecond or more, is stored; the other toplevel has no app id and     *)
(* nothing is stored for it; both stay activated, neither has a session     *)
C22_Witness ==
    /\ idle
    /\ warned = 0
    /\ Len(db) = 1
    /\ owner[1] = Watched
    /\ db[1].end_time = AsMillis(SystemTimeNow)
    /\ db[1].duration >= 1
    /\ \A h \in Handles :
          /\ h \in DOMAIN toplevels
          /\ IsActivated(toplevels[h])
          /\ ~IsSome(toplevels[h].focused_since)
          /\ IsSome(toplevels[h].app_id) <=> h = Watched

(* C23  An AppId event changes only the app id of its entry, which it       *)
(* creates when the handle has none: the entry's snapshot and focused_since *)
(* stay as they were, with or without an open session; every other entry   *)
(* stays; no row is stored and no write is attempted.                       *)
C23_AppIdNoSessionEffect ==
    [][ \A h \in Handles : \A app_id \in AppIds :
          AppId(h, app_id) =>
              /\ h \in DOMAIN toplevels'
              /\ toplevels'[h].app_id = Some(app_id)
              /\ toplevels'[h].focused_since = ItemBefore(h).focused_since
              /\ toplevels'[h].state = ItemBefore(h).state
              /\ \A k \in Handles \ {h} :
                    /\ k \in DOMAIN toplevels' <=> k \in DOMAIN toplevels
                    /\ k \in DOMAIN toplevels => toplevels'[k] = toplevels[k]
              /\ db' = db
              /\ warned' = 0
      ]_vars

(* an entry has an app id, a session that has been open for some time, and  *)
(* nothing is stored: the app id arrived without touching the session       *)
C23_Witness ==
    /\ db = << >>
    /\ Watched \in DOMAIN toplevels
    /\ toplevels[Watched].app_id = Some("a")
    /\ IsSome(toplevels[Watched].focused_since)
    /\ Unwrap(toplevels[Watched].focused_since) < now
    /\ IsActivated(toplevels[Watched])
    /\ ~idle

(* C24  The first snapshot of an entry is compared against "not activated". *)
(* When an entry that has no snapshot stored (a new handle, a handle seen   *)
(* again after Closed, or an entry that has only an app id) receives a      *)
(* snapshot with the activated flag while the system is not idle, its       *)
(* session opens at that event; a first snapshot without the flag opens no  *)
(* session; neither emits an interval.                                      *)
C24_FirstSnapshotOpens ==
    [][ \A h \in Handles :
          (~IsSome(ItemBefore(h).state) /\ IsSome(ItemAfter(h).state)) =>
              /\ (IsActivated(ItemAfter(h)) /\ ~idle)
                    => ItemAfter(h).focused_since = Some(now)
              /\ ~IsActivated(ItemAfter(h)) => ~IsSome(ItemAfter(h).focused_since)
              /\ NewRows(h) = << >>
              /\ warned' = 0
      ]_vars

(* a row was stored for Watched, its entry was removed by Closed, and the   *)
(* first snapshot of its new entry, activated, has just opened a session:   *)
(* the new entry has no app id yet                                          *)
C24_Witness ==
    /\ ~idle
    /\ now >= 2
    /\ RowsOf(Watched, db, owner) # << >>
    /\ Watched \in DOMAIN toplevels
    /\ toplevels[Watched].app_id = None
    /\ IsActivated(toplevels[Watched])
    /\ toplevels[Watched].focused_since = Some(now)

(* C25  An interval is attributed to the app id the entry holds when the    *)
(* session closes.  When a session of a toplevel ends and its entry holds   *)
(* an app id at that moment, exactly one interval is emitted, under that    *)
(* app id, for the whole time since the session was opened, whatever app id *)
(* the entry held when it was opened or in between; no row is stored for    *)
(* the toplevel by any other step, so none is recorded under an earlier     *)
(* app id.                                                                  *)
C25_AttributedAtClose ==
    [][ /\ (Ends(Watched) /\ IsSome(ItemBefore(Watched).app_id))
              => /\ IsSome(opened)
                 /\ EmitsOne(Watched, Unwrap(opened).at)
        /\ NewRows(Watched) # << >>
              => (Ends(Watched) /\ IsSome(ItemBefore(Watched).app_id))
      ]_vars

(* the session of Watched was opened while it held app id "a" and lasted a  *)
(* millisecond or more; the one row stored is the whole session under "b"   *)
C25_Witness ==
    /\ IsSome(opened)
    /\ Unwrap(opened).app_id = Some("a")
    /\ ~IsSome(Entry(Watched).focused_since)
    /\ Len(db) = 1
    /\ db[1].app_name = "b"
    /\ db[1].start_time = AsMillis(Unwrap(opened).at + UnixOffset)
    /\ db[1].duration >= 1

(* C26  Idled is idempotent: an Idled event that follows another Idled with *)
(* no event in between emits no interval, attempts no write and leaves the  *)
(* registry as the first one left it.                                       *)
C26_IdledIdempotent ==
    [][ (idledRun >= 1 /\ Idled)
           => (db' = db /\ warned' = 0 /\ toplevels' = toplevels) ]_vars

(* two Idled events in a row, time passing in between: the first stored the *)
(* sessions of both toplevels, the second found them still activated        *)
C26_Witness ==
    /\ idledRun = 2
    /\ Len(db) = 2
    /\ owner[1] # owner[2]
    /\ db[1].duration >= 1
    /\ db[2].end_time < AsMillis(SystemTimeNow)
    /\ \A h \in Handles :
          /\ h \in DOMAIN toplevels
          /\ IsActivated(toplevels[h])
          /\ ~IsSome(toplevels[h].focused_since)

(* C27  Startup never panics, whatever globals the compositor advertises    *)
(* and whether or not the initial roundtrip fails: every step of main up to *)
(* the dispatch loop either goes on, or logs an error and returns, or       *)
(* enters the loop with the idle notifier bound and a seat to subscribe on. *)
C27_StartupNeverPanics ==
    [][ main.pc \in {"connect", "new", "roundtrip", "check"} =>
          /\ main'.pc # "panicked"
          /\ main'.pc = "returned" => main'.error # ""
          /\ main'.pc = "dispatch" => (main'.idle_notifier /\ main'.seats >= 1)
      ]_vars

(* the sum of the totals of a list of (app, total) pairs *)
RECURSIVE SumTotals(_)
SumTotals(apps) ==
    IF apps = << >> THEN 0 ELSE Head(apps)[2] + SumTotals(Tail(apps))

(* the answer of one query agrees with every list_apps result `apps` for    *)
(* the same table and time_range                                            *)
AgreesWith(a, apps) ==
    /\ a.query = "get_data_for_time" => SumTotals(apps) = a.total
    /\ a.query \in {"get_data_for_app_and_time", "get_total_app_usage"} =>
          \A k \in DOMAIN apps : apps[k][1] = a.app_name => apps[k][2] = a.total

(* C28  The read-side aggregates agree on one table.  For every window, the *)
(* per-app totals of list_apps add up to get_data_for_time of that window,  *)
(* and each of them equals get_data_for_app_and_time of its app and the     *)
(* window; without a window each equals get_total_app_usage of its app.     *)
C28_AggregatesAgree ==
    IsSome(answer) =>
        LET a == Unwrap(answer)
        IN  IF a.query = "list_apps"
            THEN /\ IsSome(a.time_range) =>
                       /\ SumTotals(a.apps) =
                            GetDataForTime(db, Unwrap(a.time_range)[1],
                                               Unwrap(a.time_range)[2])
                       /\ \A k \in DOMAIN a.apps :
                             a.apps[k][2] =
                                GetDataForAppAndTime(db, a.apps[k][1],
                                                     Unwrap(a.time_range)[1],
                                                     Unwrap(a.time_range)[2])
                 /\ ~IsSome(a.time_range) =>
                       \A k \in DOMAIN a.apps :
                          a.apps[k][2] = GetTotalAppUsage(db, a.apps[k][1])
            ELSE \A apps \in ListApps(db, a.time_range) : AgreesWith(a, apps)

(* get_data_for_time has answered for a window in which two apps have a row *)
(* each, one of them ending after the window: the answer is the sum of both *)
C28_Witness ==
    /\ Answered("get_data_for_time")
    /\ Len(db) = 2
    /\ db[1].app_name # db[2].app_name
    /\ StartsWithin(Unwrap(answer).time_range) = {1, 2}
    /\ db[1].duration >= 1
    /\ db[2].duration >= 1
    /\ db[2].end_time > Unwrap(Unwrap(answer).time_range)[2]
    /\ Unwrap(answer).total = db[1].duration + db[2].duration

(* C29  The two copies of the engine are equivalent: fed the same AppId,    *)
(* State (decodable), Closed, Idled and Resumed events at the same readings *)
(* of the clocks, the handlers of main.rs and of app.rs hold the same       *)
(* app_id, focused_since and state for every handle and have appended the   *)
(* same sequence of rows.                                                   *)
C29_CopiesEquivalent ==
    /\ twin.toplevels = toplevels
    /\ twin.db = db

====
